---- MODULE Spec2Model ----
(***************************************************************************)
(* Model of salt/modules/napalm_acl.py (virtual name 'netacl'): the        *)
(* Capirca platform resolver and the load_* / get_*_pillar operations that *)
(* chain the platform resolver, the Capirca execution module and           *)
(* net.load_config.                                                        *)
(***************************************************************************)
EXTENDS Integers, Sequences, FiniteSets, TLC

(***************************************************************************)
(* Python values.  A str that the code inspects character by character     *)
(* (the grains) is a sequence of characters; a character is a              *)
(* one-character string, or "U+xxxx" for a code point outside ASCII.  The  *)
(* alphabet is ASCII, the Latin-1 letters and U+0130.                      *)
(***************************************************************************)
AsciiUpper == <<"A","B","C","D","E","F","G","H","I","J","K","L","M",
                "N","O","P","Q","R","S","T","U","V","W","X","Y","Z">>
AsciiLower == <<"a","b","c","d","e","f","g","h","i","j","k","l","m",
                "n","o","p","q","r","s","t","u","v","w","x","y","z">>

\* the upper-case letters of Latin-1 (U+00C0..U+00DE but the sign U+00D7)
\* and their lower-case forms
Latin1Upper ==
    << "U+00C0", "U+00C1", "U+00C2", "U+00C3", "U+00C4", "U+00C5",
       "U+00C6", "U+00C7", "U+00C8", "U+00C9", "U+00CA", "U+00CB",
       "U+00CC", "U+00CD", "U+00CE", "U+00CF", "U+00D0", "U+00D1",
       "U+00D2", "U+00D3", "U+00D4", "U+00D5", "U+00D6", "U+00D8",
       "U+00D9", "U+00DA", "U+00DB", "U+00DC", "U+00DD", "U+00DE" >>
Latin1Lower ==
    << "U+00E0", "U+00E1", "U+00E2", "U+00E3", "U+00E4", "U+00E5",
       "U+00E6", "U+00E7", "U+00E8", "U+00E9", "U+00EA", "U+00EB",
       "U+00EC", "U+00ED", "U+00EE", "U+00EF", "U+00F0", "U+00F1",
       "U+00F2", "U+00F3", "U+00F4", "U+00F5", "U+00F6", "U+00F8",
       "U+00F9", "U+00FA", "U+00FB", "U+00FC", "U+00FD", "U+00FE" >>

UpperChars == AsciiUpper \o Latin1Upper
LowerChars == AsciiLower \o Latin1Lower
Letters == 1..Len(UpperChars)

\* the one character whose lower-case form is two code points
DottedCapitalI == "U+0130"
CombiningDotAbove == "U+0307"

\* str.lower() on one character: the str it gives
LowerChar(c) ==
    IF c = DottedCapitalI THEN <<"i", CombiningDotAbove>>
    ELSE IF \E i \in Letters : UpperChars[i] = c
    THEN <<LowerChars[CHOOSE i \in Letters : UpperChars[i] = c]>>
    ELSE <<c>>

\* str.lower()
RECURSIVE lower(_)
lower(s) == IF s = <<>> THEN <<>> ELSE LowerChar(Head(s)) \o lower(Tail(s))

\* Python's `sub in s` on str: sub occurs in s as a contiguous slice
StrIn(sub, s) ==
    \E i \in 0..(Len(s) - Len(sub)) : SubSeq(s, i + 1, i + Len(sub)) = sub

\* the string literals of _get_capirca_platform
s_juniper    == <<"j","u","n","i","p","e","r">>
s_srx        == <<"s","r","x">>
s_junipersrx == <<"j","u","n","i","p","e","r","s","r","x">>
s_cisco      == <<"c","i","s","c","o">>
s_ios        == <<"i","o","s">>
s_iosxr      == <<"i","o","s","x","r">>
s_ciscoxr    == <<"c","i","s","c","o","x","r">>
s_asa        == <<"a","s","a">>
s_ciscoasa   == <<"c","i","s","c","o","a","s","a">>
s_linux      == <<"l","i","n","u","x">>
s_iptables   == <<"i","p","t","a","b","l","e","s">>
s_paloalto   == <<"p","a","l","o"," ","a","l","t","o"," ",
                  "n","e","t","w","o","r","k","s">>
s_paloaltofw == <<"p","a","l","o","a","l","t","o","f","w">>

(***************************************************************************)
(* Outcomes of a call: a returned value or a raised exception.             *)
(***************************************************************************)
Returned(v) == [ok |-> TRUE, value |-> v]
Raised(e, what) == [ok |-> FALSE, exc |-> e, what |-> what]

\* __grains__[key]: a dict lookup, KeyError when the key is absent
GrainLookup(g, key) ==
    IF key \in DOMAIN g THEN Returned(g[key]) ELSE Raised("KeyError", key)

\* mutant of PlatformOf: the 'palo alto networks' test moved above the
\* 'linux' test
PlatformOf_PaloAltoFirst(vendor, os_, model) ==
    IF vendor = s_juniper /\ StrIn(s_srx, model) THEN s_junipersrx
    ELSE IF vendor = s_cisco /\ os_ = s_ios THEN s_cisco
    ELSE IF vendor = s_cisco /\ os_ = s_iosxr THEN s_ciscoxr
    ELSE IF vendor = s_cisco /\ os_ = s_asa THEN s_ciscoasa
    ELSE IF vendor = s_paloalto THEN s_paloaltofw
    ELSE IF os_ = s_linux THEN s_iptables
    ELSE vendor

\* the if/elif chain of _get_capirca_platform on the three lowered grains
PlatformOf(vendor, os_, model) ==
    IF vendor = s_juniper /\ StrIn(s_srx, model) THEN s_junipersrx
    ELSE IF vendor = s_cisco /\ os_ = s_ios THEN s_cisco
    ELSE IF vendor = s_cisco /\ os_ = s_iosxr THEN s_ciscoxr
    ELSE IF vendor = s_cisco /\ os_ = s_asa THEN s_ciscoasa
    ELSE IF os_ = s_linux THEN s_iptables
    ELSE IF vendor = s_paloalto THEN s_paloaltofw
    ELSE vendor

\* mutant of _get_capirca_platform: the model grain is not lowered
get_capirca_platform_RawModel(g) ==
    LET v == GrainLookup(g, "vendor")
        o == GrainLookup(g, "os")
        m == GrainLookup(g, "model")
    IN  IF ~v.ok THEN v
        ELSE IF ~o.ok THEN o
        ELSE IF ~m.ok THEN m
        ELSE Returned(PlatformOf(lower(v.value), lower(o.value), m.value))

\* mutant of _get_capirca_platform: the vendor grain is not lowered
get_capirca_platform_RawVendor(g) ==
    LET v == GrainLookup(g, "vendor")
        o == GrainLookup(g, "os")
        m == GrainLookup(g, "model")
    IN  IF ~v.ok THEN v
        ELSE IF ~o.ok THEN o
        ELSE IF ~m.ok THEN m
        ELSE Returned(PlatformOf(v.value, lower(o.value), lower(m.value)))

\* mutant of _get_capirca_platform: the model grain is looked up only when
\* the vendor is juniper, the one rule that reads it
get_capirca_platform_LazyModel(g) ==
    LET v == GrainLookup(g, "vendor")
        o == GrainLookup(g, "os")
        m == GrainLookup(g, "model")
    IN  IF ~v.ok THEN v
        ELSE IF ~o.ok THEN o
        ELSE IF lower(v.value) = s_juniper /\ ~m.ok THEN m
        ELSE Returned(PlatformOf(lower(v.value), lower(o.value),
                                 IF m.ok THEN lower(m.value) ELSE <<>>))

\* _get_capirca_platform(): the three grains are looked up and lowered in the
\* order vendor, os, model before any rule is tried; the first missing key
\* raises KeyError
_get_capirca_platform(g) ==
    LET v == GrainLookup(g, "vendor")
        o == GrainLookup(g, "os")
        m == GrainLookup(g, "model")
    IN  IF ~v.ok THEN v
        ELSE IF ~o.ok THEN o
        ELSE IF ~m.ok THEN m
        ELSE Returned(PlatformOf(lower(v.value), lower(o.value), lower(m.value)))

(***************************************************************************)
(* Device facts the model draws from: vendor / os / model grains as NAPALM *)
(* reports them, each in several spellings of case, and each possibly      *)
(* absent from the grains dict.                                            *)
(***************************************************************************)
s_arista == <<"a","r","i","s","t","a">>
s_acme   == <<"a","c","m","e">>
s_junos  == <<"j","u","n","o","s">>
s_eos    == <<"e","o","s">>
s_panos  == <<"p","a","n","o","s">>
s_srx340 == <<"s","r","x","3","4","0">>
s_vsrx   == <<"v","s","r","x">>
s_mx480  == <<"m","x","4","8","0">>
s_7050   == <<"7","0","5","0">>
s_asr9k  == <<"a","s","r","9","k">>
s_sr_x   == <<"s","r","-","x">>
\* vendors spelt with a letter outside ASCII: e-acute, and the dotted
\* capital I
s_elios  == <<"U+00E9","l","i","o","s">>
s_Inet   == <<"U+0130","n","e","t">>

UpperChar(c) ==
    IF \E i \in Letters : LowerChars[i] = c
    THEN UpperChars[CHOOSE i \in Letters : LowerChars[i] = c]
    ELSE c

Up(w)  == [i \in 1..Len(w) |-> UpperChar(w[i])]
Cap(w) == [i \in 1..Len(w) |-> IF i = 1 THEN UpperChar(w[i]) ELSE w[i]]

\* the spellings of a word: as written, upper case, first letter capital
Spellings(w) == {w, Up(w), Cap(w)}

VendorWords == {s_juniper, s_cisco, s_arista, s_paloalto, s_acme}
OsWords     == {s_junos, s_ios, s_iosxr, s_asa, s_linux, s_eos, s_panos}
ModelWords  == {s_srx340, s_vsrx, s_mx480, s_7050, s_asr9k, s_sr_x}

Vendors == UNION {Spellings(w) : w \in VendorWords \cup {s_elios}} \cup {s_Inet}
Oses    == UNION {Spellings(w) : w \in OsWords}
Models  == UNION {Spellings(w) : w \in ModelWords}

GrainKeys == {"vendor", "os", "model"}

\* a grains dict with the keys `keys` present
FactsOver(keys, vs, os, ms) ==
    { g \in [keys -> vs \cup os \cup ms] :
        /\ ("vendor" \in keys => g["vendor"] \in vs)
        /\ ("os" \in keys => g["os"] \in os)
        /\ ("model" \in keys => g["model"] \in ms) }

\* every grains dict of the resolver's specification
AllFacts == UNION {FactsOver(keys, Vendors, Oses, Models) : keys \in SUBSET GrainKeys}

FullyPopulated(g) == DOMAIN g = GrainKeys

(***************************************************************************)
(* Keyword arguments.  A parameter the caller may leave out is a record    *)
(* [given, v]; a parameter whose value is a list or None is a record       *)
(* [isNone, items]; the str-or-None parameters use the string PyNone.      *)
(***************************************************************************)
PyNone == "None"
Given(v) == [given |-> TRUE, v |-> v]
NoneList == [isNone |-> TRUE, items |-> <<>>]
PyList(l) == [isNone |-> FALSE, items |-> l]
OmittedFlag == [given |-> FALSE, v |-> FALSE]
OmittedList == [given |-> FALSE, v |-> NoneList]
OmittedStr  == [given |-> FALSE, v |-> ""]

\* the value a parameter is bound to: the caller's, or the signature's default
Bound(arg, default) == IF arg.given THEN arg.v ELSE default

\* Python truthiness of a list-or-None value: `not x`
Falsy(x) == x.isNone \/ x.items = <<>>

\* `if not x: x = []`
OrEmptyList(x) == IF Falsy(x) THEN PyList(<<>>) ELSE x

LoadOps == {"load_term_config", "load_filter_config", "load_policy_config"}
PillarOps == {"get_filter_pillar", "get_term_pillar"}

(***************************************************************************)
(* Signature binding: the local variables of each operation right after    *)
(* the call, from the caller's keyword arguments and the defaults.         *)
(***************************************************************************)
\* def load_term_config(filter_name, term_name, filter_options=None, ...,
\*                      **term_fields)
TermLocals(c) ==
    [ filter_name          |-> c.filter_name,
      term_name            |-> c.term_name,
      filter_options       |-> Bound(c.filter_options, NoneList),
      pillar_key           |-> Bound(c.pillar_key, "acl"),
      pillarenv            |-> Bound(c.pillarenv, PyNone),
      saltenv              |-> Bound(c.saltenv, PyNone),
      merge_pillar         |-> Bound(c.merge_pillar, TRUE),
      revision_id          |-> Bound(c.revision_id, PyNone),
      revision_no          |-> Bound(c.revision_no, PyNone),
      revision_date        |-> Bound(c.revision_date, TRUE),
      revision_date_format |-> Bound(c.revision_date_format, "%Y/%m/%d"),
      test                 |-> Bound(c.test, FALSE),
      commit               |-> Bound(c.commit, TRUE),
      debug                |-> Bound(c.debug, FALSE),
      source_service       |-> Bound(c.source_service, PyNone),
      destination_service  |-> Bound(c.destination_service, PyNone),
      term_fields          |-> c.extra ]

\* def load_filter_config(filter_name, filter_options=None, terms=None,
\*                        prepend=True, ..., **kwargs)
FilterLocals(c) ==
    [ filter_name          |-> c.filter_name,
      filter_options       |-> Bound(c.filter_options, NoneList),
      terms                |-> Bound(c.terms, NoneList),
      prepend              |-> Bound(c.prepend, TRUE),
      pillar_key           |-> Bound(c.pillar_key, "acl"),
      pillarenv            |-> Bound(c.pillarenv, PyNone),
      saltenv              |-> Bound(c.saltenv, PyNone),
      merge_pillar         |-> Bound(c.merge_pillar, TRUE),
      only_lower_merge     |-> Bound(c.only_lower_merge, FALSE),
      revision_id          |-> Bound(c.revision_id, PyNone),
      revision_no          |-> Bound(c.revision_no, PyNone),
      revision_date        |-> Bound(c.revision_date, TRUE),
      revision_date_format |-> Bound(c.revision_date_format, "%Y/%m/%d"),
      test                 |-> Bound(c.test, FALSE),
      commit               |-> Bound(c.commit, TRUE),
      debug                |-> Bound(c.debug, FALSE),
      kwargs               |-> c.extra ]

\* def load_policy_config(filters=None, prepend=True, ..., **kwargs)
PolicyLocals(c) ==
    [ filters              |-> Bound(c.filters, NoneList),
      prepend              |-> Bound(c.prepend, TRUE),
      pillar_key           |-> Bound(c.pillar_key, "acl"),
      pillarenv            |-> Bound(c.pillarenv, PyNone),
      saltenv              |-> Bound(c.saltenv, PyNone),
      merge_pillar         |-> Bound(c.merge_pillar, TRUE),
      only_lower_merge     |-> Bound(c.only_lower_merge, FALSE),
      revision_id          |-> Bound(c.revision_id, PyNone),
      revision_no          |-> Bound(c.revision_no, PyNone),
      revision_date        |-> Bound(c.revision_date, TRUE),
      revision_date_format |-> Bound(c.revision_date_format, "%Y/%m/%d"),
      test                 |-> Bound(c.test, FALSE),
      commit               |-> Bound(c.commit, TRUE),
      debug                |-> Bound(c.debug, FALSE),
      kwargs               |-> c.extra ]

\* def get_filter_pillar(filter_name, pillar_key='acl', pillarenv=None,
\*                       saltenv=None)
FilterPillarLocals(c) ==
    [ filter_name |-> c.filter_name,
      pillar_key  |-> Bound(c.pillar_key, "acl"),
      pillarenv   |-> Bound(c.pillarenv, PyNone),
      saltenv     |-> Bound(c.saltenv, PyNone) ]

\* def get_term_pillar(filter_name, term_name, pillar_key='acl',
\*                     pillarenv=None, saltenv=None)
TermPillarLocals(c) ==
    [ filter_name |-> c.filter_name,
      term_name   |-> c.term_name,
      pillar_key  |-> Bound(c.pillar_key, "acl"),
      pillarenv   |-> Bound(c.pillarenv, PyNone),
      saltenv     |-> Bound(c.saltenv, PyNone) ]

(***************************************************************************)
(* The argument lists the operations build for their collaborators.        *)
(***************************************************************************)
\* mutant of TermCompilerArgs: only the documented term fields are passed on
TermCompilerArgs_DocumentedOnly(platform, l) ==
    [ fn                   |-> "capirca.get_term_config",
      platform             |-> platform,
      filter_name          |-> l.filter_name,
      term_name            |-> l.term_name,
      filter_options       |-> OrEmptyList(l.filter_options),
      pillar_key           |-> l.pillar_key,
      pillarenv            |-> l.pillarenv,
      saltenv              |-> l.saltenv,
      merge_pillar         |-> l.merge_pillar,
      revision_id          |-> l.revision_id,
      revision_no          |-> l.revision_no,
      revision_date        |-> l.revision_date,
      revision_date_format |-> l.revision_date_format,
      source_service       |-> l.source_service,
      destination_service  |-> l.destination_service,
      term_fields          |-> {p \in l.term_fields :
                                  p[1] \in {"action", "source_port", "protocol"}} ]

\* load_term_config: `if not filter_options: filter_options = []`, then
\* __salt__['capirca.get_term_config'](platform, filter_name, term_name, ...,
\*                                     **term_fields)
TermCompilerArgs(platform, l) ==
    [ fn                   |-> "capirca.get_term_config",
      platform             |-> platform,
      filter_name          |-> l.filter_name,
      term_name            |-> l.term_name,
      filter_options       |-> OrEmptyList(l.filter_options),
      pillar_key           |-> l.pillar_key,
      pillarenv            |-> l.pillarenv,
      saltenv              |-> l.saltenv,
      merge_pillar         |-> l.merge_pillar,
      revision_id          |-> l.revision_id,
      revision_no          |-> l.revision_no,
      revision_date        |-> l.revision_date,
      revision_date_format |-> l.revision_date_format,
      source_service       |-> l.source_service,
      destination_service  |-> l.destination_service,
      term_fields          |-> l.term_fields ]

\* mutant of FilterCompilerArgs: merge_pillar is not forwarded, so the
\* compiler's default (True) applies
FilterCompilerArgs_AlwaysMerge(platform, l) ==
    [ fn                   |-> "capirca.get_filter_config",
      platform             |-> platform,
      filter_name          |-> l.filter_name,
      terms                |-> OrEmptyList(l.terms),
      prepend              |-> l.prepend,
      filter_options       |-> OrEmptyList(l.filter_options),
      pillar_key           |-> l.pillar_key,
      pillarenv            |-> l.pillarenv,
      saltenv              |-> l.saltenv,
      merge_pillar         |-> TRUE,
      only_lower_merge     |-> l.only_lower_merge,
      revision_id          |-> l.revision_id,
      revision_no          |-> l.revision_no,
      revision_date        |-> l.revision_date,
      revision_date_format |-> l.revision_date_format ]

\* mutant of FilterCompilerArgs: terms is handed over as the caller gave it,
\* None included
FilterCompilerArgs_TermsAsGiven(platform, l) ==
    [ fn                   |-> "capirca.get_filter_config",
      platform             |-> platform,
      filter_name          |-> l.filter_name,
      terms                |-> l.terms,
      prepend              |-> l.prepend,
      filter_options       |-> OrEmptyList(l.filter_options),
      pillar_key           |-> l.pillar_key,
      pillarenv            |-> l.pillarenv,
      saltenv              |-> l.saltenv,
      merge_pillar         |-> l.merge_pillar,
      only_lower_merge     |-> l.only_lower_merge,
      revision_id          |-> l.revision_id,
      revision_no          |-> l.revision_no,
      revision_date        |-> l.revision_date,
      revision_date_format |-> l.revision_date_format ]

\* mutant of FilterCompilerArgs: prepend is not handed to the compiler, which
\* then uses its own default
FilterCompilerArgs_PrependDropped(platform, l) ==
    [ fn                   |-> "capirca.get_filter_config",
      platform             |-> platform,
      filter_name          |-> l.filter_name,
      terms                |-> OrEmptyList(l.terms),
      prepend              |-> TRUE,
      filter_options       |-> OrEmptyList(l.filter_options),
      pillar_key           |-> l.pillar_key,
      pillarenv            |-> l.pillarenv,
      saltenv              |-> l.saltenv,
      merge_pillar         |-> l.merge_pillar,
      only_lower_merge     |-> l.only_lower_merge,
      revision_id          |-> l.revision_id,
      revision_no          |-> l.revision_no,
      revision_date        |-> l.revision_date,
      revision_date_format |-> l.revision_date_format ]

\* load_filter_config: filter_options and terms default to [], then
\* __salt__['capirca.get_filter_config'](platform, filter_name, terms=terms, ...)
FilterCompilerArgs(platform, l) ==
    [ fn                   |-> "capirca.get_filter_config",
      platform             |-> platform,
      filter_name          |-> l.filter_name,
      terms                |-> OrEmptyList(l.terms),
      prepend              |-> l.prepend,
      filter_options       |-> OrEmptyList(l.filter_options),
      pillar_key           |-> l.pillar_key,
      pillarenv            |-> l.pillarenv,
      saltenv              |-> l.saltenv,
      merge_pillar         |-> l.merge_pillar,
      only_lower_merge     |-> l.only_lower_merge,
      revision_id          |-> l.revision_id,
      revision_no          |-> l.revision_no,
      revision_date        |-> l.revision_date,
      revision_date_format |-> l.revision_date_format ]

\* load_policy_config: filters defaults to [], then
\* __salt__['capirca.get_policy_config'](platform, filters=filters, ...)
PolicyCompilerArgs(platform, l) ==
    [ fn                   |-> "capirca.get_policy_config",
      platform             |-> platform,
      filters              |-> OrEmptyList(l.filters),
      prepend              |-> l.prepend,
      pillar_key           |-> l.pillar_key,
      pillarenv            |-> l.pillarenv,
      saltenv              |-> l.saltenv,
      merge_pillar         |-> l.merge_pillar,
      only_lower_merge     |-> l.only_lower_merge,
      revision_id          |-> l.revision_id,
      revision_no          |-> l.revision_no,
      revision_date        |-> l.revision_date,
      revision_date_format |-> l.revision_date_format ]

\* mutant of LoadConfigArgs: the text is edited locally before it is handed
\* over (the revision header is cut off)
LoadConfigArgs_EditedText(text, l, dev) ==
    [ fn                    |-> "net.load_config",
      text                  |-> [text EXCEPT !.revision.date = FALSE],
      test                  |-> l.test,
      commit                |-> l.commit,
      debug                 |-> l.debug,
      inherit_napalm_device |-> dev ]

\* mutant of LoadConfigArgs: commit is switched off whenever test is on
LoadConfigArgs_NoCommitOnTest(text, l, dev) ==
    [ fn                    |-> "net.load_config",
      text                  |-> text,
      test                  |-> l.test,
      commit                |-> l.commit /\ ~l.test,
      debug                 |-> l.debug,
      inherit_napalm_device |-> dev ]

\* mutant of LoadConfigArgs: test is not passed on, so net.load_config's
\* default (False) applies
LoadConfigArgs_TestDropped(text, l, dev) ==
    [ fn                    |-> "net.load_config",
      text                  |-> text,
      test                  |-> FALSE,
      commit                |-> l.commit,
      debug                 |-> l.debug,
      inherit_napalm_device |-> dev ]

\* __salt__['net.load_config'](text=..., test=test, commit=commit, debug=debug,
\*                             inherit_napalm_device=napalm_device)
LoadConfigArgs(text, l, dev) ==
    [ fn                    |-> "net.load_config",
      text                  |-> text,
      test                  |-> l.test,
      commit                |-> l.commit,
      debug                 |-> l.debug,
      inherit_napalm_device |-> dev ]

\* mutant of FilterPillarArgs: the caller's pillar_key is not passed on
FilterPillarArgs_DefaultKey(l) ==
    [ fn          |-> "capirca.get_filter_pillar",
      filter_name |-> l.filter_name,
      pillar_key  |-> "acl",
      pillarenv   |-> l.pillarenv,
      saltenv     |-> l.saltenv ]

\* __salt__['capirca.get_filter_pillar'](filter_name, pillar_key=..., ...)
FilterPillarArgs(l) ==
    [ fn          |-> "capirca.get_filter_pillar",
      filter_name |-> l.filter_name,
      pillar_key  |-> l.pillar_key,
      pillarenv   |-> l.pillarenv,
      saltenv     |-> l.saltenv ]

\* __salt__['capirca.get_term_pillar'](filter_name, term_name, pillar_key=..., ...)
TermPillarArgs(l) ==
    [ fn          |-> "capirca.get_term_pillar",
      filter_name |-> l.filter_name,
      term_name   |-> l.term_name,
      pillar_key  |-> l.pillar_key,
      pillarenv   |-> l.pillarenv,
      saltenv     |-> l.saltenv ]

\* the locals of whichever operation the call names
Locals(c) ==
    CASE c.op = "load_term_config"   -> TermLocals(c)
      [] c.op = "load_filter_config" -> FilterLocals(c)
      [] c.op = "load_policy_config" -> PolicyLocals(c)
      [] c.op = "get_filter_pillar"  -> FilterPillarLocals(c)
      [] c.op = "get_term_pillar"    -> TermPillarLocals(c)

\* the compiler call of whichever load_* operation the call names
CompilerArgs(platform, c) ==
    CASE c.op = "load_term_config"   -> TermCompilerArgs(platform, TermLocals(c))
      [] c.op = "load_filter_config" -> FilterCompilerArgs(platform, FilterLocals(c))
      [] c.op = "load_policy_config" -> PolicyCompilerArgs(platform, PolicyLocals(c))

(***************************************************************************)
(* The pillar store and the Capirca execution module (capirca_acl.py),      *)
(* which lives outside this file: modelled from its documented contract.   *)
(* A term is [name, fields], fields a set of <<field, value>> pairs; a     *)
(* filter is [name, options, terms]; a generated configuration text is     *)
(* the platform, the ordered filters and the revision header it renders.   *)
(***************************************************************************)
Term(name, fields) == [name |-> name, fields |-> fields]
Filter(name, options, terms) == [name |-> name, options |-> options, terms |-> terms]

FieldNames(fields) == {p[1] : p \in fields}

\* caller-supplied values win on conflicting keys
MergeFields(own, fromPillar) ==
    own \cup {p \in fromPillar : p[1] \notin FieldNames(own)}

SeqNames(xs) == {xs[i].name : i \in 1..Len(xs)}

\* the entries of xs whose name is not in names, in their order
RECURSIVE Without(_, _)
Without(xs, names) ==
    IF xs = <<>> THEN <<>>
    ELSE IF Head(xs).name \in names THEN Without(Tail(xs), names)
    ELSE <<Head(xs)>> \o Without(Tail(xs), names)

\* lists are concatenated, the position of the new entries set by prepend
MergeLists(own, fromPillar, prepend) ==
    IF prepend THEN own \o Without(fromPillar, SeqNames(own))
    ELSE Without(fromPillar, SeqNames(own)) \o own

\* the pillar holds its filters under one root key
PillarFilters(store, pillar_key) ==
    IF store.key = pillar_key THEN store.filters ELSE <<>>

EmptyFilterPillar == [options |-> <<>>, terms |-> <<>>]

\* capirca.get_filter_pillar: the named filter's options and terms, or empty
CapircaFilterPillar(store, a) ==
    LET fs == PillarFilters(store, a.pillar_key)
    IN  IF \E i \in 1..Len(fs) : fs[i].name = a.filter_name
        THEN LET f == fs[CHOOSE i \in 1..Len(fs) : fs[i].name = a.filter_name]
             IN  [options |-> f.options, terms |-> f.terms]
        ELSE EmptyFilterPillar

\* capirca.get_term_pillar: the named term's fields within the named filter
CapircaTermPillar(store, a) ==
    LET ts == CapircaFilterPillar(store, a).terms
    IN  IF \E i \in 1..Len(ts) : ts[i].name = a.term_name
        THEN ts[CHOOSE i \in 1..Len(ts) : ts[i].name = a.term_name].fields
        ELSE {}

\* the platforms the compiler has a generator for
SupportedPlatforms ==
    {s_juniper, s_junipersrx, s_cisco, s_ciscoxr, s_ciscoasa, s_iptables,
     s_paloaltofw, s_arista}

\* the documented term-field vocabulary (the part the model uses) and the
\* values of each field the compiler accepts
Vocabulary == {"action", "source_port", "protocol"}
WellFormed(field) ==
    CASE field = "action"      -> {"accept", "reject", "deny"}
      [] field = "source_port" -> {"1234", "5678"}
      [] field = "protocol"    -> {"tcp", "udp", "icmp"}
      [] OTHER                 -> {}

Malformed(fields) ==
    \E p \in fields : p[1] \in Vocabulary /\ p[2] \notin WellFormed(p[1])
OutsideVocabulary(fields) == \E p \in fields : p[1] \notin Vocabulary

TermsOf(fs) == UNION {{fs[i].terms[j] : j \in 1..Len(fs[i].terms)} : i \in 1..Len(fs)}

AnyMalformed(fs) == \E t \in TermsOf(fs) : Malformed(t.fields)
AnyOutsideVocabulary(fs) == \E t \in TermsOf(fs) : OutsideVocabulary(t.fields)

RevisionOf(a) ==
    [id |-> a.revision_id, no |-> a.revision_no, date |-> a.revision_date,
     format |-> a.revision_date_format]

\* the filters a compiler call renders, after the pillar merge
\* (merge_pillar false: the caller's values alone)
MergedFilters(store, a) ==
    CASE a.fn = "capirca.get_term_config" ->
           LET own == a.term_fields
               fromPillar == IF a.merge_pillar THEN CapircaTermPillar(store, a) ELSE {}
               fields == MergeFields(own, fromPillar)
           IN  << Filter(a.filter_name, a.filter_options.items,
                         IF fields = {} THEN <<>> ELSE <<Term(a.term_name, fields)>>) >>
      [] a.fn = "capirca.get_filter_config" ->
           LET fromPillar == IF a.merge_pillar
                             THEN CapircaFilterPillar(store, a)
                             ELSE EmptyFilterPillar
               options == IF a.filter_options.items # <<>> \/ a.only_lower_merge
                          THEN a.filter_options.items
                          ELSE fromPillar.options
           IN  << Filter(a.filter_name, options,
                         MergeLists(a.terms.items, fromPillar.terms, a.prepend)) >>
      [] a.fn = "capirca.get_policy_config" ->
           LET fromPillar == IF a.merge_pillar
                             THEN PillarFilters(store, a.pillar_key)
                             ELSE <<>>
           IN  MergeLists(a.filters.items, fromPillar, a.prepend)

\* how many pillar lookups a compiler call makes
PillarLookups(a) == IF a.merge_pillar THEN 1 ELSE 0

NoTerms(fs) == \A i \in 1..Len(fs) : fs[i].terms = <<>>

CompiledText(platform, filters, rev) ==
    [platform |-> platform, filters |-> filters, revision |-> rev]

\* capirca.get_term_config / get_filter_config / get_policy_config: the
\* outcomes the compiler can produce for a call.  It raises on a platform it
\* has no generator for and on a malformed field value; a policy without
\* terms may be rejected or rendered as an empty policy, and a field outside
\* the vocabulary may be rejected or rendered.
CompilerOutcomes(store, a) ==
    LET filters == MergedFilters(store, a)
        text == CompiledText(a.platform, filters, RevisionOf(a))
    IN  IF a.platform \notin SupportedPlatforms
        THEN {Raised("CompileError", "platform")}
        ELSE IF AnyMalformed(filters)
        THEN {Raised("CompileError", "field value")}
        ELSE IF NoTerms(filters)
        THEN {Raised("CompileError", "empty"), Returned(text)}
        ELSE IF AnyOutsideVocabulary(filters)
        THEN {Raised("CompileError", "field name"), Returned(text)}
        ELSE {Returned(text)}

(***************************************************************************)
(* The device and net.load_config (salt/modules/napalm_network.py), which  *)
(* lives outside this file: modelled from its documented contract.         *)
(* The device holds the committed (running) configuration and at most one  *)
(* loaded but uncommitted candidate.                                       *)
(***************************************************************************)
NoText == CompiledText(<<>>, <<>>, [id |-> PyNone, no |-> PyNone, date |-> FALSE, format |-> ""])

FactoryDevice == [running |-> NoText, candidate |-> <<>>]

\* a device that already runs the pillar's policy, as generated for a
\* Juniper SRX with the default revision header
PillarPolicyText ==
    CompiledText(s_junipersrx,
                 <<Filter("f1", <<"inet">>,
                          <<Term("A", {<<"action", "accept">>, <<"protocol", "tcp">>}),
                            Term("B", {<<"action", "deny">>})>>)>>,
                 [id |-> PyNone, no |-> PyNone, date |-> TRUE, format |-> "%Y/%m/%d"])
ConfiguredDevice == [running |-> PillarPolicyText, candidate |-> <<>>]
Devices == {FactoryDevice, ConfiguredDevice}

ApplyResult(result, comment, already, diff) ==
    [result |-> result, comment |-> comment, already_configured |-> already,
     diff |-> diff]

\* debug: the raw loaded text is added under loaded_config
WithLoadedConfig(r, a) ==
    IF a.debug
    THEN [result |-> r.result, comment |-> r.comment,
          already_configured |-> r.already_configured, diff |-> r.diff,
          loaded_config |-> a.text]
    ELSE r

\* net.load_config(text, test, commit, debug, inherit_napalm_device): the
\* outcomes [out, device] it can produce.  The session may fail (raised),
\* the device may reject the text (result False), or the text loads: with
\* test the change is diffed and discarded, with commit (and no test) it is
\* committed, otherwise it stays loaded and uncommitted.
LoadConfigOutcomes(dev, a) ==
    LET same == a.text = dev.running
        diff == IF same THEN <<>> ELSE <<a.text>>
        loaded == [out |-> Returned(WithLoadedConfig(
                              ApplyResult(TRUE,
                                          IF same THEN "Already configured." ELSE "",
                                          same, diff), a)),
                   device |-> IF same \/ a.test
                              THEN [running |-> dev.running, candidate |-> <<>>]
                              ELSE IF a.commit
                              THEN [running |-> a.text, candidate |-> <<>>]
                              ELSE [running |-> dev.running, candidate |-> <<a.text>>]]
        rejected == [out |-> Returned(WithLoadedConfig(
                                ApplyResult(FALSE, "Cannot load the configuration.",
                                            FALSE, <<>>), a)),
                     device |-> dev]
        failed == [out |-> Raised("ConnectionException", "device"), device |-> dev]
    IN  {loaded, rejected, failed}

(***************************************************************************)
(* Inputs of the operations' specification.                                *)
(***************************************************************************)
MaxTerms == 2       \* longest terms / filters list a caller passes
MaxOptions == 1     \* longest filter_options list a caller passes

Fact(v, o, m) == [vendor |-> v, os |-> o, model |-> m]

\* device facts of the hosts the operations run on: two devices Capirca has
\* a generator for, one it has none for, and hosts with a grain missing
SampleFacts ==
    { Fact(Cap(s_juniper), s_junos, Up(s_srx340)),
      Fact(Cap(s_arista), s_eos, s_7050),
      Fact(Cap(s_acme), s_eos, s_7050),
      [vendor |-> Cap(s_cisco), os |-> s_ios],
      [os |-> s_linux, model |-> s_7050] }

TermA == Term("A", {<<"action", "accept">>, <<"protocol", "tcp">>})
TermB == Term("B", {<<"action", "deny">>})
TermC == Term("C", {<<"action", "reject">>})
TermD == Term("D", {<<"action", "accept">>})

\* the pillar: nothing, or filter f1 with terms A, B under the key 'acl'
EmptyPillar  == [key |-> "acl", filters |-> <<>>]
SamplePillar == [key |-> "acl", filters |-> <<Filter("f1", <<"inet">>, <<TermA, TermB>>)>>]
Pillars == {EmptyPillar, SamplePillar}

\* the sequences without repetition over S of length at most n
RECURSIVE ListsOver(_, _)
ListsOver(S, n) ==
    IF n = 0 THEN {<<>>}
    ELSE LET shorter == ListsOver(S, n - 1)
         IN  shorter \cup
             UNION { {Append(l, x) : x \in {y \in S : \A i \in 1..Len(l) : l[i] # y}} :
                     l \in shorter }

\* a list argument: left out, None, or a list
ListArgs(lists) == {OmittedList, Given(NoneList)} \cup {Given(PyList(l)) : l \in lists}

FlagArgs == {OmittedFlag, Given(TRUE), Given(FALSE)}

CallerTerms   == ListsOver({TermC, TermD}, MaxTerms)
CallerFilters == ListsOver({Filter("f2", <<>>, <<TermC>>), Filter("f3", <<>>, <<TermD>>)}, MaxTerms)
CallerOptions == ListsOver({"inet6", "mixed"}, MaxOptions)

\* **term_fields of load_term_config: none, a documented field, a malformed
\* value, a name outside the vocabulary
CallerFields ==
    { {}, {<<"action", "reject">>}, {<<"source_port", "99999">>},
      {<<"counter", "c1">>} }

\* **kwargs of load_filter_config / load_policy_config
CallerKwargs == { {}, {<<"counter", "c1">>} }

\* the calls: the parameters the model never passes are left to their defaults
TermCalls ==
    [ op: {"load_term_config"}, filter_name: {"f1"}, term_name: {"A"},
      filter_options: ListArgs(CallerOptions),
      pillar_key: {OmittedStr}, pillarenv: {OmittedStr}, saltenv: {OmittedStr},
      merge_pillar: {OmittedFlag, Given(FALSE)},
      revision_id: {OmittedStr}, revision_no: {OmittedStr},
      revision_date: {OmittedFlag}, revision_date_format: {OmittedStr},
      test: FlagArgs, commit: FlagArgs, debug: FlagArgs,
      source_service: {OmittedStr}, destination_service: {OmittedStr},
      extra: CallerFields ]

FilterCalls ==
    [ op: {"load_filter_config"}, filter_name: {"f1"},
      filter_options: {OmittedList, Given(PyList(<<"inet6">>))},
      terms: ListArgs(CallerTerms),
      prepend: {OmittedFlag, Given(FALSE)},
      pillar_key: {OmittedStr}, pillarenv: {OmittedStr}, saltenv: {OmittedStr},
      merge_pillar: {OmittedFlag, Given(FALSE)},
      only_lower_merge: {OmittedFlag},
      revision_id: {OmittedStr}, revision_no: {OmittedStr},
      revision_date: {OmittedFlag}, revision_date_format: {OmittedStr},
      test: FlagArgs, commit: FlagArgs, debug: {OmittedFlag, Given(TRUE)},
      extra: CallerKwargs ]

PolicyCalls ==
    [ op: {"load_policy_config"},
      filters: ListArgs(CallerFilters),
      prepend: {OmittedFlag, Given(FALSE)},
      pillar_key: {OmittedStr}, pillarenv: {OmittedStr}, saltenv: {OmittedStr},
      merge_pillar: {OmittedFlag, Given(FALSE)},
      only_lower_merge: {OmittedFlag},
      revision_id: {OmittedStr}, revision_no: {OmittedStr},
      revision_date: {OmittedFlag}, revision_date_format: {OmittedStr},
      test: FlagArgs, commit: FlagArgs, debug: {OmittedFlag, Given(TRUE)},
      extra: CallerKwargs ]

FilterPillarCalls ==
    [ op: {"get_filter_pillar"}, filter_name: {"f1", "f2"},
      pillar_key: {OmittedStr, Given("acl"), Given("firewall")},
      pillarenv: {OmittedStr, Given("base")}, saltenv: {OmittedStr} ]

TermPillarCalls ==
    [ op: {"get_term_pillar"}, filter_name: {"f1", "f2"}, term_name: {"A", "C"},
      pillar_key: {OmittedStr, Given("acl"), Given("firewall")},
      pillarenv: {OmittedStr, Given("base")}, saltenv: {OmittedStr} ]

LoadCalls == TermCalls \cup FilterCalls \cup PolicyCalls
PillarCalls == FilterPillarCalls \cup TermPillarCalls

\* the worker contexts of the host; Solo is the one the operations'
\* specification runs, with every call above
Workers == {"w1", "w2"}
Solo == {"w1"}

\* the calls the workers make when they run side by side
ConcurrentLoadCalls ==
    { c \in LoadCalls :
        /\ c.test = (IF c.op = "load_term_config" THEN OmittedFlag ELSE Given(TRUE))
        /\ c.commit = OmittedFlag /\ c.debug = OmittedFlag
        /\ c.merge_pillar = OmittedFlag
        /\ c.op = "load_term_config" =>
              /\ c.filter_options = OmittedList
              /\ c.extra = {<<"action", "reject">>}
        /\ c.op = "load_filter_config" =>
              /\ c.filter_options = OmittedList /\ c.prepend = OmittedFlag
              /\ c.terms = Given(PyList(<<TermC>>))
              /\ c.extra = {}
        /\ c.op = "load_policy_config" =>
              /\ c.prepend = Given(FALSE) /\ c.extra = {}
              /\ c.filters = Given(PyList(<<Filter("f2", <<>>, <<TermC>>)>>)) }

ConcurrentPillarCalls ==
    { c \in PillarCalls :
        /\ c.filter_name = "f1" /\ c.pillar_key = OmittedStr
        /\ c.pillarenv = OmittedStr
        /\ c.op = "get_term_pillar" => c.term_name = "A" }

(***************************************************************************)
(* proxy_napalm_wrap (salt/utils/napalm.py), the decorator of the load_*   *)
(* operations, lives outside this file: before the body runs it binds the  *)
(* module-level name napalm_device to the device session of the call,      *)
(* which it opens for the call or reuses from the host.                    *)
(***************************************************************************)
Undefined == [session |-> "undefined", by |-> ""]
HostSession == [session |-> "host", by |-> ""]
OpenedFor(w) == [session |-> "opened", by |-> w]

\* the sessions the decorator may bind for an invocation in worker w
ProxyNapalmWrap(w) == {HostSession, OpenedFor(w)}

\* mutant of LoadReturn: a failed load is reported with a comment of the
\* module's own
LoadReturn_OwnComment(out) ==
    IF out.ok /\ ~out.value.result
    THEN [ok |-> TRUE, value |-> [out.value EXCEPT !.comment = "Unable to load the ACL."]]
    ELSE out

\* `return __salt__['net.load_config'](...)`: the value of the call, or the
\* exception it raised, is the operation's own
LoadReturn(out) == out

\* `return __salt__['capirca.get_filter_pillar'](...)` and get_term_pillar
PillarReturn(out) == out

NoCall == [ok |-> FALSE, exc |-> "", what |-> ""]

\* mutant of AfterCompiler: the compiler's error is caught and reported as a
\* failed result
AfterCompiler_Caught(res) ==
    IF res.ok THEN [pc |-> "apply", outcome |-> NoCall]
    ELSE [pc |-> "done",
          outcome |-> [ok |-> TRUE,
                       value |-> [result |-> FALSE, comment |-> res.what,
                                  already_configured |-> FALSE, diff |-> <<>>]]]

\* where an invocation goes after the compiler call: on to net.load_config
\* with the text, or out with the compiler's exception
AfterCompiler(res) ==
    IF res.ok THEN [pc |-> "apply", outcome |-> NoCall]
    ELSE [pc |-> "done", outcome |-> res]

(***************************************************************************)
(* Loading the module.  The imports at the top of the file set HAS_CAPIRCA *)
(* and HAS_NAPALM; the loader then calls __virtual__() and exposes the     *)
(* functions under the name it returns, or not at all.                     *)
(***************************************************************************)
__virtualname__ == "netacl"

\* the literal runs over a line break inside the quotes, so the 16 blanks
\* that indent its second line are part of it
CannotLoad ==
    "The netacl (napalm_acl) module cannot be loaded:                 Please install capirca and napalm."

\* mutant of __virtual__: one of the two libraries is enough
virtual_EitherLibrary(has_capirca, has_napalm) ==
    IF has_capirca \/ has_napalm
    THEN [registered |-> TRUE, name |-> __virtualname__]
    ELSE [registered |-> FALSE, reason |-> CannotLoad]

\* __virtual__(): the name to register under, or (False, reason)
__virtual__(has_capirca, has_napalm) ==
    IF has_capirca /\ has_napalm
    THEN [registered |-> TRUE, name |-> __virtualname__]
    ELSE [registered |-> FALSE, reason |-> CannotLoad]

NotLoaded == [registered |-> FALSE, asked |-> FALSE]

VARIABLES
    HAS_CAPIRCA,     \* whether `import capirca.aclgen` succeeded
    HAS_NAPALM,      \* whether `import napalm_base` succeeded
    virtual,         \* what __virtual__() returned to the loader, once asked
    grains,          \* __grains__: the device facts of the host
    resolved,        \* resolver on its own: result of _get_capirca_platform()
    pillar,          \* the pillar store
    device,          \* the device: running configuration and candidate
    napalm_device,   \* the module-level name the decorator binds
    bound,           \* per worker: the session the decorator bound for its call
    pc,              \* per worker: where its invocation stands
    call,            \* per worker: the operation and keyword arguments called
    seen,            \* per worker: the grains _get_capirca_platform has read
    platform,        \* per worker: the local variable platform
    compiled,        \* per worker: what the compiler returned or raised (0 or 1)
    applied,         \* per worker: what net.load_config produced (0 or 1)
    trace,           \* per worker: the calls made so far, in order
    outcome          \* per worker: what the invocation returned or raised

loader == <<HAS_CAPIRCA, HAS_NAPALM, virtual>>

handle == <<napalm_device, bound>>

vars == <<loader, grains, resolved, pillar, device, handle, pc, call, seen,
          platform, compiled, applied, trace, outcome>>

Idle == [op |-> "none"]

InitWorkers ==
    /\ virtual = NotLoaded
    /\ napalm_device = Undefined
    /\ bound = [w \in Workers |-> <<>>]
    /\ pc = [w \in Workers |-> "idle"]
    /\ call = [w \in Workers |-> Idle]
    /\ seen = [w \in Workers |-> <<>>]
    /\ platform = [w \in Workers |-> <<>>]
    /\ compiled = [w \in Workers |-> <<>>]
    /\ applied = [w \in Workers |-> <<>>]
    /\ trace = [w \in Workers |-> <<>>]
    /\ outcome = [w \in Workers |-> NoCall]

(***************************************************************************)
(* The operations.  Each invocation runs in a worker: the call, then one   *)
(* step per collaborator it reaches.                                       *)
(***************************************************************************)
Init ==
    /\ HAS_CAPIRCA \in BOOLEAN
    /\ HAS_NAPALM \in BOOLEAN
    /\ grains \in SampleFacts
    /\ resolved = NoCall
    /\ pillar \in Pillars
    /\ device \in Devices
    /\ InitWorkers

\* the loader asks __virtual__() once, when it loads the module
LoadModule ==
    /\ virtual = NotLoaded
    /\ virtual' = __virtual__(HAS_CAPIRCA, HAS_NAPALM)
    /\ UNCHANGED <<HAS_CAPIRCA, HAS_NAPALM, grains, resolved, pillar, device,
                   handle, pc, call, platform, seen, compiled, applied, trace,
                   outcome>>

\* a load_* operation is called: the decorator runs, the arguments are bound
CallLoad(w, calls) ==
    /\ virtual.registered
    /\ pc[w] = "idle"
    /\ \E c \in calls : call' = [call EXCEPT ![w] = c]
    /\ \E s \in ProxyNapalmWrap(w) :
          /\ napalm_device' = s
          /\ bound' = [bound EXCEPT ![w] = <<s>>]
    /\ pc' = [pc EXCEPT ![w] = "resolve"]
    /\ UNCHANGED <<loader, grains, resolved, pillar, device, platform, seen, compiled,
                   applied, trace, outcome>>

\* get_filter_pillar / get_term_pillar is called (no decorator)
CallPillar(w, calls) ==
    /\ virtual.registered
    /\ pc[w] = "idle"
    /\ \E c \in calls : call' = [call EXCEPT ![w] = c]
    /\ pc' = [pc EXCEPT ![w] = "pillar"]
    /\ UNCHANGED <<loader, grains, resolved, pillar, device, handle, platform, seen,
                   compiled, applied, trace, outcome>>

\* the grain _get_capirca_platform reads next: vendor, os, model (97-99)
NextKey(read) ==
    IF "vendor" \notin DOMAIN read THEN "vendor"
    ELSE IF "os" \notin DOMAIN read THEN "os"
    ELSE "model"

\* the grains read so far, and the value v read for key
WithGrain(read, key, v) ==
    [k \in DOMAIN read \cup {key} |-> IF k = key THEN v ELSE read[k]]

\* platform = _get_capirca_platform(): each step reads one grain from
\* __grains__ as it is then; the read of the last grain, or of a missing
\* one, ends the resolver: the rules are applied to what was read, or the
\* KeyError ends the invocation
Resolve(w) ==
    /\ pc[w] = "resolve"
    /\ LET key == NextKey(seen[w])
           got == GrainLookup(grains, key)
       IN  IF got.ok /\ key # "model"
           THEN /\ seen' = [seen EXCEPT ![w] = WithGrain(@, key, got.value)]
                /\ UNCHANGED <<pc, platform, trace, outcome>>
           ELSE LET g == IF got.ok THEN WithGrain(seen[w], key, got.value)
                                   ELSE seen[w]
                    r == _get_capirca_platform(g)
                IN  /\ seen' = [seen EXCEPT ![w] = g]
                    /\ trace' = [trace EXCEPT ![w] =
                                    Append(@, [fn |-> "_get_capirca_platform",
                                               facts |-> g, out |-> r])]
                    /\ IF r.ok
                       THEN /\ platform' = [platform EXCEPT ![w] = r.value]
                            /\ pc' = [pc EXCEPT ![w] = "compile"]
                            /\ UNCHANGED outcome
                       ELSE /\ outcome' = [outcome EXCEPT ![w] = r]
                            /\ pc' = [pc EXCEPT ![w] = "done"]
                            /\ UNCHANGED platform
    /\ UNCHANGED <<loader, grains, resolved, pillar, device, handle, call,
                   compiled, applied>>

\* the pillar lookups a compiler call makes, as trace entries
LookupEvents(a) ==
    IF PillarLookups(a) = 0 THEN <<>>
    ELSE <<[fn |-> "pillar lookup", by |-> a.fn]>>

\* <x>_config = __salt__['capirca.get_<x>_config'](platform, ...): the call
\* is not guarded, so an error of the compiler ends the invocation with it
Compile(w) ==
    /\ pc[w] = "compile"
    /\ LET a == CompilerArgs(platform[w], call[w])
       IN  /\ trace' = [trace EXCEPT ![w] = Append(@, a) \o LookupEvents(a)]
           /\ \E res \in CompilerOutcomes(pillar, a) :
                /\ compiled' = [compiled EXCEPT ![w] = <<res>>]
                /\ pc' = [pc EXCEPT ![w] = AfterCompiler(res).pc]
                /\ outcome' = [outcome EXCEPT ![w] = AfterCompiler(res).outcome]
    /\ UNCHANGED <<loader, grains, resolved, pillar, device, handle, call,
                   platform, seen, applied>>

\* return __salt__['net.load_config'](text=<x>_config, test=test, ...,
\* inherit_napalm_device=napalm_device): the arguments are evaluated, the
\* name napalm_device among them as it is bound then, and the call is made;
\* the invocation then waits inside it for the device
Apply(w) ==
    /\ pc[w] = "apply"
    /\ LET a == LoadConfigArgs(compiled[w][1].value, Locals(call[w]), napalm_device)
       IN  trace' = [trace EXCEPT ![w] = Append(@, a)]
    /\ pc' = [pc EXCEPT ![w] = "load"]
    /\ UNCHANGED <<loader, grains, resolved, pillar, device, handle, call,
                   platform, seen, compiled, applied, outcome>>

\* the arguments the pending net.load_config call of w was made with
Pending(w) == trace[w][Len(trace[w])]

\* mutant of LoadConfig: a load that failed or returned result False is
\* tried again
LoadConfig_Retry(w) ==
    /\ pc[w] = "load"
    /\ \E o \in LoadConfigOutcomes(device, Pending(w)) :
         /\ device' = o.device
         /\ applied' = [applied EXCEPT ![w] = Append(@, o.out)]
         /\ outcome' = [outcome EXCEPT ![w] = LoadReturn(o.out)]
         /\ pc' = [pc EXCEPT ![w] =
                      IF o.out.ok /\ o.out.value.result THEN "done" ELSE "apply"]
    /\ UNCHANGED <<loader, grains, resolved, pillar, handle, call, platform, seen,
                   compiled, trace>>

\* the pending call reaches the device, as it is then, with the arguments it
\* was made with; what it answers or raises is what the invocation returns
\* or raises
LoadConfig(w) ==
    /\ pc[w] = "load"
    /\ \E o \in LoadConfigOutcomes(device, Pending(w)) :
         /\ device' = o.device
         /\ applied' = [applied EXCEPT ![w] = Append(@, o.out)]
         /\ outcome' = [outcome EXCEPT ![w] = LoadReturn(o.out)]
    /\ pc' = [pc EXCEPT ![w] = "done"]
    /\ UNCHANGED <<loader, grains, resolved, pillar, handle, call, platform, seen,
                   compiled, trace>>

\* return __salt__['capirca.get_filter_pillar'](filter_name, ...)
GetFilterPillar(w) ==
    /\ pc[w] = "pillar"
    /\ call[w].op = "get_filter_pillar"
    /\ LET a == FilterPillarArgs(FilterPillarLocals(call[w]))
       IN  /\ trace' = [trace EXCEPT ![w] = Append(@, a)]
           /\ outcome' = [outcome EXCEPT ![w] =
                             PillarReturn(Returned(CapircaFilterPillar(pillar, a)))]
    /\ pc' = [pc EXCEPT ![w] = "done"]
    /\ UNCHANGED <<loader, grains, resolved, pillar, device, handle, call,
                   platform, seen, compiled, applied>>

\* return __salt__['capirca.get_term_pillar'](filter_name, term_name, ...)
GetTermPillar(w) ==
    /\ pc[w] = "pillar"
    /\ call[w].op = "get_term_pillar"
    /\ LET a == TermPillarArgs(TermPillarLocals(call[w]))
       IN  /\ trace' = [trace EXCEPT ![w] = Append(@, a)]
           /\ outcome' = [outcome EXCEPT ![w] =
                             PillarReturn(Returned(CapircaTermPillar(pillar, a)))]
    /\ pc' = [pc EXCEPT ![w] = "done"]
    /\ UNCHANGED <<loader, grains, resolved, pillar, device, handle, call,
                   platform, seen, compiled, applied>>

Next ==
    \/ LoadModule
    \/ \E w \in Solo :
        \/ CallLoad(w, LoadCalls)
        \/ CallPillar(w, PillarCalls)
        \/ Resolve(w)
        \/ Compile(w)
        \/ Apply(w)
        \/ LoadConfig(w)
        \/ GetFilterPillar(w)
        \/ GetTermPillar(w)

Spec == Init /\ [][Next]_vars

(***************************************************************************)
(* The resolver on its own: any grains, one application.                   *)
(***************************************************************************)
ResolverInit ==
    /\ HAS_CAPIRCA = TRUE
    /\ HAS_NAPALM = TRUE
    /\ grains \in AllFacts
    /\ resolved = NoCall
    /\ pillar = EmptyPillar
    /\ device = FactoryDevice
    /\ InitWorkers

ResolvePlatform ==
    /\ resolved = NoCall
    /\ resolved' = _get_capirca_platform(grains)
    /\ UNCHANGED <<loader, grains, pillar, device,
                   handle, pc, call, platform, seen, compiled, applied, trace,
                   outcome>>

ResolverNext == ResolvePlatform

SpecResolver == ResolverInit /\ [][ResolverNext]_vars

(***************************************************************************)
(* The operations called from several worker contexts of one host process, *)
(* their steps interleaved, while the host refreshes the grains.  The      *)
(* workers share the module, and with it the name napalm_device.           *)
(***************************************************************************)
\* the grains of the host before and after a refresh
WorkerFacts ==
    { Fact(Cap(s_juniper), s_junos, Up(s_srx340)),
      [os |-> s_linux, model |-> s_7050] }

WorkersInit ==
    /\ HAS_CAPIRCA = TRUE
    /\ HAS_NAPALM = TRUE
    /\ grains \in WorkerFacts
    /\ resolved = NoCall
    /\ pillar = SamplePillar
    /\ device = FactoryDevice
    /\ InitWorkers

\* the host refreshes __grains__ (the device was replaced or upgraded)
RefreshGrains ==
    /\ grains' \in WorkerFacts \ {grains}
    /\ UNCHANGED <<loader, resolved, pillar, device, handle, pc, call, platform, seen,
                   compiled, applied, trace, outcome>>

WorkersNext ==
    \/ LoadModule
    \/ RefreshGrains
    \/ \E w \in Workers :
        \/ CallLoad(w, ConcurrentLoadCalls)
        \/ CallPillar(w, ConcurrentPillarCalls)
        \/ Resolve(w)
        \/ Compile(w)
        \/ Apply(w)
        \/ LoadConfig(w)
        \/ GetFilterPillar(w)
        \/ GetTermPillar(w)

SpecWorkers == WorkersInit /\ [][WorkersNext]_vars

(***************************************************************************)
(* Properties of the platform resolver (checked under SpecResolver).       *)
(***************************************************************************)
\* two characters that are the same letter, whatever their case
SameLetter(c, d) ==
    c = d \/ \E i \in Letters : {c, d} = {UpperChars[i], LowerChars[i]}

EqIgnoreCase(a, b) ==
    Len(a) = Len(b) /\ \A i \in 1..Len(a) : SameLetter(a[i], b[i])

ContainsIgnoreCase(sub, str) ==
    \E i \in 0..(Len(str) - Len(sub)) :
        EqIgnoreCase(SubSeq(str, i + 1, i + Len(sub)), sub)

\* c is not an upper-case letter
NotUpper(c) == c # DottedCapitalI /\ \A k \in Letters : c # UpperChars[k]

\* v is str with every upper-case letter replaced by its lower-case form
\* (two code points for the dotted capital I)
RECURSIVE Lowercased(_, _)
Lowercased(v, str) ==
    IF str = <<>> THEN v = <<>>
    ELSE IF Head(str) = DottedCapitalI
    THEN /\ Len(v) >= 2
         /\ SubSeq(v, 1, 2) = <<"i", CombiningDotAbove>>
         /\ Lowercased(SubSeq(v, 3, Len(v)), Tail(str))
    ELSE /\ v # <<>>
         /\ SameLetter(Head(v), Head(str))
         /\ NotUpper(Head(v))
         /\ Lowercased(Tail(v), Tail(str))

\* the rule table: <<>> stands for 'any'
Row(vendor, model_contains, os_, plat) ==
    [vendor |-> vendor, model_contains |-> model_contains, os |-> os_,
     platform |-> plat]

RuleTable ==
    << Row(<<s_juniper>>,  <<s_srx>>, <<>>,        s_junipersrx),
       Row(<<s_cisco>>,    <<>>,      <<s_ios>>,   s_cisco),
       Row(<<s_cisco>>,    <<>>,      <<s_iosxr>>, s_ciscoxr),
       Row(<<s_cisco>>,    <<>>,      <<s_asa>>,   s_ciscoasa),
       Row(<<>>,           <<>>,      <<s_linux>>, s_iptables),
       Row(<<s_paloalto>>, <<>>,      <<>>,        s_paloaltofw) >>

FixedPlatforms == {RuleTable[k].platform : k \in 1..Len(RuleTable)}

RowMatches(row, g) ==
    /\ row.vendor = <<>> \/ EqIgnoreCase(g.vendor, row.vendor[1])
    /\ row.model_contains = <<>> \/ ContainsIgnoreCase(row.model_contains[1], g.model)
    /\ row.os = <<>> \/ EqIgnoreCase(g.os, row.os[1])

FirstMatch(k, g) ==
    /\ RowMatches(RuleTable[k], g)
    /\ \A j \in 1..(k - 1) : ~RowMatches(RuleTable[j], g)

\* the resolver has been applied to fully populated grains
ResolvedFull == FullyPopulated(grains) /\ (resolved.ok \/ resolved.exc # "")

\* C1: on fully populated device facts the resolver returns the platform of
\* the first row of the rule table that matches case-insensitively; so
\* {juniper, junos, srx340} gives junipersrx and {cisco, iosxr, any model}
\* gives ciscoxr.
C1_FirstMatchingRow ==
    ResolvedFull =>
        /\ resolved.ok
        /\ \A k \in 1..Len(RuleTable) :
              FirstMatch(k, grains) => resolved.value = RuleTable[k].platform
        /\ grains = Fact(s_juniper, s_junos, s_srx340) => resolved.value = s_junipersrx
        /\ (EqIgnoreCase(grains.vendor, s_cisco) /\ EqIgnoreCase(grains.os, s_iosxr))
              => resolved.value = s_ciscoxr

\* C1 witness: a Juniper with an upper-case model containing SRX resolves to
\* junipersrx
C1_Witness ==
    /\ ResolvedFull
    /\ grains = Fact(Cap(s_juniper), s_junos, Up(s_vsrx))
    /\ resolved.ok
    /\ resolved.value = s_junipersrx

\* C2 as stated: whenever os is linux (in any case) the resolver returns
\* iptables, whatever the vendor and the model.
C2_LinuxAlwaysIptables ==
    (ResolvedFull /\ EqIgnoreCase(grains.os, s_linux)) =>
        (resolved.ok /\ resolved.value = s_iptables)

\* C2 amended: whenever os is linux (in any case) the resolver returns
\* iptables, whatever the vendor and the model, except for a juniper vendor
\* with a model containing srx, which resolves to junipersrx.
C2_LinuxUnlessJuniperSrx ==
    (ResolvedFull /\ EqIgnoreCase(grains.os, s_linux)) =>
        /\ resolved.ok
        /\ resolved.value =
              IF EqIgnoreCase(grains.vendor, s_juniper)
                 /\ ContainsIgnoreCase(s_srx, grains.model)
              THEN s_junipersrx
              ELSE s_iptables

\* C2 witness: os LINUX on a Palo Alto Networks vendor resolves to iptables
C2_Witness ==
    /\ ResolvedFull
    /\ grains.os = Up(s_linux)
    /\ grains.vendor = Cap(s_paloalto)
    /\ resolved.ok
    /\ resolved.value = s_iptables

\* C3: on fully populated device facts the resolver always returns; when no
\* row of the rule table matches it returns the vendor lowercased (so
\* {arista, eos, 7050} gives arista), and every result is one of the six
\* fixed platforms or the lowercased vendor.
C3_VendorFallback ==
    ResolvedFull =>
        /\ resolved.ok
        /\ (\A k \in 1..Len(RuleTable) : ~RowMatches(RuleTable[k], grains))
              => Lowercased(resolved.value, grains.vendor)
        /\ resolved.value \in FixedPlatforms
              \/ Lowercased(resolved.value, grains.vendor)
        /\ grains = Fact(s_arista, s_eos, s_7050) => resolved.value = s_arista

\* C3 witness: an upper-case vendor no rule matches comes back lowercased
C3_Witness ==
    /\ ResolvedFull
    /\ grains = Fact(Up(s_arista), s_eos, s_7050)
    /\ resolved.ok
    /\ resolved.value = s_arista

(***************************************************************************)
(* Properties of the operations (checked under Spec).                      *)
(***************************************************************************)
CompilerFns ==
    {"capirca.get_term_config", "capirca.get_filter_config",
     "capirca.get_policy_config"}
PillarFns == {"pillar lookup", "capirca.get_filter_pillar", "capirca.get_term_pillar"}
ApplyFns == {"net.load_config"}

\* the calls worker w has made to the functions fns, in order
CallsTo(w, fns) == SelectSeq(trace[w], LAMBDA e : e.fn \in fns)

\* worker w is in, or has finished, an invocation of a load_* operation
InLoad(w) == pc[w] # "idle" /\ call[w].op \in LoadOps

\* the value the caller's flag takes in the callee: its own, or the default
FlagOf(arg, default) == IF arg.given THEN arg.v ELSE default

\* C4: with any of vendor, os, model missing from the grains, a load_* call
\* ends with the KeyError of the lookup and reaches neither the compiler nor
\* net.load_config, also when the rule that matches does not read the
\* missing grain.
C4_MissingFactFails ==
    \A w \in Workers :
        (InLoad(w) /\ ~FullyPopulated(grains)) =>
            /\ pc[w] \in {"resolve", "done"}
            /\ CallsTo(w, CompilerFns \cup ApplyFns) = <<>>
            /\ pc[w] = "done" =>
                  /\ ~outcome[w].ok
                  /\ outcome[w].exc = "KeyError"
                  /\ outcome[w].what \in GrainKeys \ DOMAIN grains

\* C4 witness: vendor Cisco, os ios and no model: the call has ended with
\* the KeyError for 'model'
C4_Witness ==
    \E w \in Workers :
        /\ InLoad(w) /\ pc[w] = "done"
        /\ grains = [vendor |-> Cap(s_cisco), os |-> s_ios]
        /\ outcome[w] = Raised("KeyError", "model")

\* C5: the text of every net.load_config call of a load_* invocation is the
\* value that invocation's compiler call returned.
C5_TextUnchanged ==
    \A w \in Workers :
        InLoad(w) =>
            \A i \in 1..Len(CallsTo(w, ApplyFns)) :
                /\ Len(compiled[w]) = 1
                /\ compiled[w][1].ok
                /\ CallsTo(w, ApplyFns)[i].text = compiled[w][1].value

\* C5 witness: a load_policy_config invocation has handed a compiled policy
\* to net.load_config
C5_Witness ==
    \E w \in Workers :
        /\ InLoad(w) /\ call[w].op = "load_policy_config"
        /\ Len(CallsTo(w, ApplyFns)) = 1
        /\ CallsTo(w, ApplyFns)[1].text.filters # <<>>

\* C6: a load_* invocation that reached net.load_config returns exactly
\* what net.load_config produced, successful or not.
C6_ResultVerbatim ==
    \A w \in Workers :
        (InLoad(w) /\ pc[w] = "done" /\ applied[w] # <<>>) =>
            outcome[w] = applied[w][1]

\* C6 witness: the device rejected the text of a debug call; the failed
\* result came back with its loaded_config
C6_Witness ==
    \E w \in Workers :
        /\ InLoad(w) /\ pc[w] = "done" /\ applied[w] # <<>>
        /\ outcome[w].ok
        /\ ~outcome[w].value.result
        /\ "loaded_config" \in DOMAIN outcome[w].value

\* C7: net.load_config receives the caller's test, commit and debug, each on
\* its own, and False, True, False for the ones the caller left out.
C7_FlagsForwarded ==
    \A w \in Workers :
        InLoad(w) =>
            \A i \in 1..Len(CallsTo(w, ApplyFns)) :
                LET a == CallsTo(w, ApplyFns)[i]
                IN  /\ a.test = FlagOf(call[w].test, FALSE)
                    /\ a.commit = FlagOf(call[w].commit, TRUE)
                    /\ a.debug = FlagOf(call[w].debug, FALSE)

\* C7 witness: test=True with commit left out reaches net.load_config as
\* test True, commit True
C7_Witness ==
    \E w \in Workers :
        /\ InLoad(w)
        /\ call[w].test = Given(TRUE) /\ ~call[w].commit.given
        /\ Len(CallsTo(w, ApplyFns)) = 1
        /\ CallsTo(w, ApplyFns)[1].test
        /\ CallsTo(w, ApplyFns)[1].commit

\* worker w runs load_term_config with test=True
DryRunTerm(w) ==
    /\ InLoad(w)
    /\ call[w].op = "load_term_config"
    /\ call[w].test = Given(TRUE)

\* C8: load_term_config(test=True) calls net.load_config with test=True and
\* the step that applies leaves the device's running configuration as it
\* was, whatever commit is.
C8_DryRunNeverPersists ==
    /\ [](\A w \in Workers :
            DryRunTerm(w) =>
                \A i \in 1..Len(CallsTo(w, ApplyFns)) : CallsTo(w, ApplyFns)[i].test)
    /\ [][\A w \in Workers :
            (DryRunTerm(w) /\ pc[w] # pc'[w]) => device'.running = device.running]_vars

\* C8 witness: a dry run with commit=True loaded a text that differs from
\* the running configuration, and the device still runs what it ran
C8_Witness ==
    \E w \in Workers :
        /\ DryRunTerm(w) /\ pc[w] = "done"
        /\ call[w].commit = Given(TRUE)
        /\ outcome[w].ok
        /\ outcome[w].value.result
        /\ outcome[w].value.diff # <<>>
        /\ device.running \in {NoText, PillarPolicyText}
        /\ device.running # compiled[w][1].value

\* the compiler call of worker w raised
CompilerRaised(w) == InLoad(w) /\ compiled[w] # <<>> /\ ~compiled[w][1].ok

\* C9: when the compiler raises in a load_* invocation, the invocation ends
\* with that error, net.load_config is not called and the step leaves the
\* device as it was.
C9_CompilerErrorPropagates ==
    /\ [](\A w \in Workers :
            CompilerRaised(w) =>
                /\ pc[w] = "done"
                /\ outcome[w] = compiled[w][1]
                /\ CallsTo(w, ApplyFns) = <<>>
                /\ applied[w] = <<>>)
    /\ [][\A w \in Workers :
            (InLoad(w) /\ pc[w] = "compile" /\ CompilerRaised(w)')
                => device' = device]_vars

\* C9 witness: load_filter_config with no terms and merge_pillar=False ended
\* with the compiler's error for an empty policy
C9_Witness ==
    \E w \in Workers :
        /\ CompilerRaised(w)
        /\ call[w].op = "load_filter_config"
        /\ call[w].merge_pillar = Given(FALSE)
        /\ outcome[w] = Raised("CompileError", "empty")

\* C10: a load_* invocation with merge_pillar=False makes no pillar lookup,
\* neither itself nor through the compiler.
C10_NoPillarWithoutMerge ==
    \A w \in Workers :
        (InLoad(w) /\ ~FlagOf(call[w].merge_pillar, TRUE)) =>
            CallsTo(w, PillarFns) = <<>>

\* C10 witness: load_filter_config with terms [C] and merge_pillar=False on a
\* pillar that holds terms for the filter compiled the caller's term alone
C10_Witness ==
    \E w \in Workers :
        /\ InLoad(w) /\ call[w].op = "load_filter_config"
        /\ call[w].merge_pillar = Given(FALSE)
        /\ pillar = SamplePillar
        /\ compiled[w] # <<>>
        /\ compiled[w][1].ok
        /\ compiled[w][1].value.filters[1].terms = <<TermC>>
        /\ CallsTo(w, PillarFns) = <<>>

(***************************************************************************)
(* Properties of the merge order (checked under Spec).                     *)
(***************************************************************************)
\* the list a caller passed: nothing when left out or None
CallerList(arg) == IF arg.given /\ ~arg.v.isNone THEN arg.v.items ELSE <<>>

\* the terms the pillar holds for filter f1, and its filters
PillarTermsF1 == IF pillar = SamplePillar THEN <<TermA, TermB>> ELSE <<>>
PillarFiltersAll ==
    IF pillar = SamplePillar THEN <<Filter("f1", <<"inet">>, <<TermA, TermB>>)>> ELSE <<>>

\* own before fromPillar with prepend, after it without
InOrder(own, fromPillar, prepend) ==
    IF prepend THEN own \o fromPillar ELSE fromPillar \o own

\* C11: with merge_pillar true, the text load_filter_config loads holds the
\* caller's terms and the pillar's terms, each in its own order, the
\* caller's first when prepend is true and last when it is false: pillar
\* [A, B] and caller [C] give [C, A, B] resp. [A, B, C]; likewise for the
\* filters of load_policy_config
C11_MergeOrder ==
    \A w \in Workers :
        InLoad(w) /\ FlagOf(call[w].merge_pillar, TRUE) =>
            \A i \in 1..Len(CallsTo(w, ApplyFns)) :
                LET text == CallsTo(w, ApplyFns)[i].text
                    prepend == FlagOf(call[w].prepend, TRUE)
                IN  /\ call[w].op = "load_filter_config" =>
                          /\ Len(text.filters) = 1
                          /\ text.filters[1].terms =
                                InOrder(CallerList(call[w].terms), PillarTermsF1, prepend)
                    /\ call[w].op = "load_policy_config" =>
                          text.filters =
                            InOrder(CallerList(call[w].filters), PillarFiltersAll, prepend)

\* load_filter_config(terms=[C], prepend=False) loaded [A, B, C]
C11_Witness ==
    \E w \in Workers :
        /\ call[w].op = "load_filter_config"
        /\ pc[w] = "done"
        /\ Len(CallsTo(w, ApplyFns)) = 1
        /\ FlagOf(call[w].merge_pillar, TRUE)
        /\ call[w].prepend = Given(FALSE)
        /\ call[w].terms = Given(PyList(<<TermC>>))
        /\ CallsTo(w, ApplyFns)[1].text.filters[1].terms = <<TermA, TermB, TermC>>

(***************************************************************************)
(* Properties of the pillar getters (checked under Spec).                  *)
(***************************************************************************)
\* the one lookup a getter is to make for the call c
ExpectedLookup(c) ==
    IF c.op = "get_filter_pillar"
    THEN [ fn |-> "capirca.get_filter_pillar", filter_name |-> c.filter_name,
           pillar_key |-> FlagOf(c.pillar_key, "acl"),
           pillarenv |-> FlagOf(c.pillarenv, PyNone),
           saltenv |-> FlagOf(c.saltenv, PyNone) ]
    ELSE [ fn |-> "capirca.get_term_pillar", filter_name |-> c.filter_name,
           term_name |-> c.term_name,
           pillar_key |-> FlagOf(c.pillar_key, "acl"),
           pillarenv |-> FlagOf(c.pillarenv, PyNone),
           saltenv |-> FlagOf(c.saltenv, PyNone) ]

\* what the pillar holds for that lookup
LookupResult(c) ==
    IF c.op = "get_filter_pillar"
    THEN Returned(CapircaFilterPillar(pillar, ExpectedLookup(c)))
    ELSE Returned(CapircaTermPillar(pillar, ExpectedLookup(c)))

InPillarRead(w) == pc[w] # "idle" /\ call[w].op \in PillarOps

\* C12: get_filter_pillar and get_term_pillar make exactly one call, the
\* matching pillar lookup with the caller's filter_name, term_name,
\* pillar_key, pillarenv and saltenv, and return its result as it is; they
\* call neither the resolver, the compiler nor net.load_config, and their
\* step leaves the device, the pillar and the device handle as they were
C12_PillarReadsArePure ==
    /\ [](\A w \in Workers :
            InPillarRead(w) =>
                /\ platform[w] = <<>> /\ compiled[w] = <<>> /\ applied[w] = <<>>
                /\ pc[w] \in {"pillar", "done"}
                /\ pc[w] = "pillar" => trace[w] = <<>>
                /\ pc[w] = "done" =>
                      /\ trace[w] = <<ExpectedLookup(call[w])>>
                      /\ outcome[w] = LookupResult(call[w]))
    /\ [][\A w \in Workers :
            InPillarRead(w) /\ pc'[w] # pc[w] =>
                /\ device' = device /\ pillar' = pillar
                /\ napalm_device' = napalm_device /\ grains' = grains]_vars

\* get_term_pillar('f1', 'A') returned the fields the pillar holds for A,
\* looked up under the caller's pillar_key and pillarenv
C12_Witness ==
    \E w \in Workers :
        /\ call[w].op = "get_term_pillar"
        /\ call[w].pillar_key = Given("acl")
        /\ call[w].pillarenv = Given("base")
        /\ pc[w] = "done"
        /\ Len(trace[w]) = 1
        /\ trace[w][1].pillarenv = "base"
        /\ outcome[w] = Returned(TermA.fields)

(***************************************************************************)
(* Properties of loading the module (checked under Spec).                  *)
(***************************************************************************)
Loaded == virtual # NotLoaded

\* C13: once the loader has asked, the module is registered, under the name
\* 'netacl', exactly when both libraries were importable; with either one
\* missing it is refused with a reason.  The answer is given once: it never
\* changes afterwards, and no operation runs without it
C13_RegistersIffBothLoadable ==
    /\ [](/\ Loaded =>
              /\ virtual.registered <=> (HAS_CAPIRCA /\ HAS_NAPALM)
              /\ virtual.registered => virtual.name = "netacl"
              /\ ~virtual.registered => virtual.reason # ""
          /\ \A w \in Workers : pc[w] # "idle" => Loaded /\ virtual.registered)
    /\ [][Loaded => virtual' = virtual]_vars

\* the ACL compiler library is there, the device-automation library is
\* not: the module was refused
C13_Witness ==
    /\ HAS_CAPIRCA /\ ~HAS_NAPALM
    /\ Loaded
    /\ ~virtual.registered
    /\ virtual.reason = CannotLoad

(***************************************************************************)
(* Properties of the order of the calls (checked under Spec).              *)
(***************************************************************************)
ResolverFns == {"_get_capirca_platform"}

CompilerFnOf(op) ==
    CASE op = "load_term_config"   -> "capirca.get_term_config"
      [] op = "load_filter_config" -> "capirca.get_filter_config"
      [] op = "load_policy_config" -> "capirca.get_policy_config"

\* the calls worker w itself has made, in order (the compiler's own pillar
\* lookups left out)
OwnCalls(w) == CallsTo(w, ResolverFns \cup CompilerFns \cup ApplyFns)

\* s is t or the beginning of t
IsPrefix(s_, t) == Len(s_) <= Len(t) /\ \A i \in 1..Len(s_) : s_[i] = t[i]

\* C14: a load_* invocation resolves the platform, then calls its compiler
\* once with that platform, then calls net.load_config once, in this order
\* and nothing more: each is called at most once, and after net.load_config
\* has failed or returned result False the invocation makes no further call
C14_FixedOrder ==
    /\ [](\A w \in Workers :
            InLoad(w) =>
                LET evs == OwnCalls(w)
                IN  /\ Len(evs) <= 3
                    /\ Len(evs) >= 1 => evs[1].fn \in ResolverFns
                    /\ Len(evs) >= 2 =>
                          /\ evs[2].fn = CompilerFnOf(call[w].op)
                          /\ evs[1].out.ok
                          /\ evs[2].platform = evs[1].out.value
                    /\ Len(evs) = 3 =>
                          /\ evs[3].fn \in ApplyFns
                          /\ pc[w] \in {"load", "done"})
    /\ [][\A w \in Workers :
            /\ IsPrefix(trace[w], trace'[w])
            /\ pc[w] = "done" => trace'[w] = trace[w] /\ pc'[w] = "done"]_vars

\* an invocation whose load returned result False ended after that one call
C14_Witness ==
    \E w \in Workers :
        /\ InLoad(w)
        /\ pc[w] = "done"
        /\ Len(OwnCalls(w)) = 3
        /\ Len(applied[w]) = 1
        /\ applied[w][1].ok /\ ~applied[w][1].value.result

(***************************************************************************)
(* Properties of empty input (checked under Spec).                         *)
(***************************************************************************)
\* the list the compiler is to receive for the caller's argument: a list,
\* never None
ListFor(arg) == [isNone |-> FALSE, items |-> CallerList(arg)]

\* the list arguments of the compiler call e are those of the call c
ListsNormalised(e, c) ==
    CASE c.op = "load_term_config" ->
           e.filter_options = ListFor(c.filter_options)
      [] c.op = "load_filter_config" ->
           /\ e.filter_options = ListFor(c.filter_options)
           /\ e.terms = ListFor(c.terms)
      [] c.op = "load_policy_config" ->
           e.filters = ListFor(c.filters)

\* C16: once the platform is resolved, a load_* invocation calls the
\* compiler exactly once whatever its input: filter_options, terms and
\* filters that were left out, None or empty arrive as an empty list, never
\* as None, also with merge_pillar false; and any text the compiler returns
\* is handed to net.load_config
C16_EmptyInputNotShortCircuited ==
    \A w \in Workers :
        InLoad(w) /\ platform[w] # <<>> =>
            LET cs == CallsTo(w, CompilerFns)
            IN  /\ pc[w] = "compile" => cs = <<>>
                /\ pc[w] \in {"apply", "load", "done"} =>
                      /\ Len(cs) = 1
                      /\ ListsNormalised(cs[1], call[w])
                      /\ Len(compiled[w]) = 1
                /\ pc[w] = "done" /\ compiled[w][1].ok =>
                      /\ Len(CallsTo(w, ApplyFns)) = 1
                      /\ CallsTo(w, ApplyFns)[1].text = compiled[w][1].value

\* load_filter_config(terms=None, merge_pillar=False): the compiler was
\* called with terms=[] and the empty policy it rendered was loaded
C16_Witness ==
    \E w \in Workers :
        /\ call[w].op = "load_filter_config"
        /\ call[w].terms = Given(NoneList)
        /\ call[w].merge_pillar = Given(FALSE)
        /\ pc[w] = "done"
        /\ Len(CallsTo(w, CompilerFns)) = 1
        /\ CallsTo(w, CompilerFns)[1].terms = PyList(<<>>)
        /\ Len(compiled[w]) = 1
        /\ compiled[w][1].ok
        /\ Len(CallsTo(w, ApplyFns)) = 1
        /\ CallsTo(w, ApplyFns)[1].text = compiled[w][1].value

(***************************************************************************)
(* Properties of extra keyword arguments (checked under Spec).             *)
(***************************************************************************)
\* the call c made without any extra keyword argument
WithoutExtra(c) == [c EXCEPT !.extra = {}]

\* C17: load_term_config hands every keyword argument outside its named
\* parameters to the compiler as a term field, documented or not;
\* load_filter_config and load_policy_config take extra keyword arguments
\* and drop them: their compiler call and their net.load_config call are
\* those of the same call made without the extras
C17_ExtraKeywordArguments ==
    \A w \in Workers :
        InLoad(w) =>
            LET cs == CallsTo(w, CompilerFns)
                as == CallsTo(w, ApplyFns)
            IN  /\ call[w].op = "load_term_config" =>
                      \A i \in 1..Len(cs) : cs[i].term_fields = call[w].extra
                /\ call[w].op \in {"load_filter_config", "load_policy_config"} =>
                      /\ \A i \in 1..Len(cs) :
                            cs[i] = CompilerArgs(platform[w], WithoutExtra(call[w]))
                      /\ \A i \in 1..Len(as) :
                            as[i] = LoadConfigArgs(compiled[w][1].value,
                                                   Locals(WithoutExtra(call[w])),
                                                   napalm_device)

\* load_term_config(..., counter='c1'): the compiler received counter,
\* a field outside the documented vocabulary
C17_Witness ==
    \E w \in Workers :
        /\ call[w].op = "load_term_config"
        /\ call[w].extra = {<<"counter", "c1">>}
        /\ Len(CallsTo(w, CompilerFns)) = 1
        /\ <<"counter", "c1">> \in CallsTo(w, CompilerFns)[1].term_fields

(***************************************************************************)
(* Properties of invocations side by side (checked under SpecWorkers).     *)
(***************************************************************************)
\* out is what the rule table gives for the facts g
FromFacts(out, g) ==
    IF FullyPopulated(g)
    THEN /\ out.ok
         /\ \A k \in 1..Len(RuleTable) :
               FirstMatch(k, g) => out.value = RuleTable[k].platform
         /\ (\A k \in 1..Len(RuleTable) : ~RowMatches(RuleTable[k], g))
               => Lowercased(out.value, g.vendor)
    ELSE ~out.ok /\ out.exc = "KeyError"

\* the platform of w's invocation comes from the facts it read
OwnPlatform(w) ==
    LET evs == OwnCalls(w)
    IN  Len(evs) >= 1 =>
            /\ FromFacts(evs[1].out, evs[1].facts)
            /\ evs[1].out.ok => platform[w] = evs[1].out.value

\* the compiler call of w's invocation carries its platform and arguments
OwnCompilerArgs(w) ==
    LET evs == OwnCalls(w)
    IN  Len(evs) >= 2 =>
            /\ evs[2].fn = CompilerFnOf(call[w].op)
            /\ evs[2].platform = evs[1].out.value
            /\ ListsNormalised(evs[2], call[w])
            /\ evs[2].merge_pillar = FlagOf(call[w].merge_pillar, TRUE)
            /\ call[w].op = "load_term_config" =>
                  /\ evs[2].filter_name = call[w].filter_name
                  /\ evs[2].term_name = call[w].term_name
                  /\ evs[2].term_fields = call[w].extra
            /\ call[w].op = "load_filter_config" =>
                  /\ evs[2].filter_name = call[w].filter_name
                  /\ evs[2].prepend = FlagOf(call[w].prepend, TRUE)
            /\ call[w].op = "load_policy_config" =>
                  evs[2].prepend = FlagOf(call[w].prepend, TRUE)

\* the net.load_config call of w's invocation carries the text its compiler
\* call returned and its own flags
OwnApplyArgs(w) ==
    LET evs == OwnCalls(w)
    IN  Len(evs) = 3 =>
            /\ evs[3].text = compiled[w][1].value
            /\ evs[3].test = FlagOf(call[w].test, FALSE)
            /\ evs[3].commit = FlagOf(call[w].commit, TRUE)
            /\ evs[3].debug = FlagOf(call[w].debug, FALSE)

\* ... and the device session the decorator bound for it
OwnDeviceHandle(w) ==
    LET evs == OwnCalls(w)
    IN  Len(evs) = 3 => evs[3].inherit_napalm_device = bound[w][1]

\* w's invocation returns what its own last collaborator answered
OwnReturn(w) ==
    pc[w] = "done" =>
        outcome[w] = IF applied[w] # <<>> THEN applied[w][1]
                     ELSE IF compiled[w] # <<>> THEN compiled[w][1]
                     ELSE OwnCalls(w)[1].out

OwnLookup(w) ==
    pc[w] = "done" =>
        /\ trace[w] = <<ExpectedLookup(call[w])>>
        /\ outcome[w] = LookupResult(call[w])

\* all of an invocation but the device handle is its own
OwnButDeviceHandle ==
    \A w \in Workers :
        /\ InLoad(w) =>
              OwnPlatform(w) /\ OwnCompilerArgs(w) /\ OwnApplyArgs(w) /\ OwnReturn(w)
        /\ InPillarRead(w) => OwnLookup(w)

\* C15 as stated: whatever the interleaving of the workers' invocations,
\* the platform, the compiler arguments, the net.load_config arguments and
\* the return value of each invocation come from its own arguments, the
\* facts it read when it resolved the platform and the answers of its own
\* collaborators, never from another invocation
C15_Stateless ==
    /\ OwnButDeviceHandle
    /\ \A w \in Workers : InLoad(w) => OwnDeviceHandle(w)

\* two invocations side by side, each of which has called net.load_config,
\* after the grains were refreshed between their platform lookups
C15_Witness ==
    /\ \A w \in Workers : InLoad(w) /\ Len(OwnCalls(w)) = 3
    /\ OwnCalls("w1")[1].facts # OwnCalls("w2")[1].facts
    /\ platform["w1"] # platform["w2"]

====
